---- MODULE Spec2Model ----
(***************************************************************************)
(* A model of veusz/widgets/image.py: the Image plotter widget.            *)
(*                                                                         *)
(*   - resampleLinear (lines 37-80) as an operator on edge grids, checked  *)
(*     under SpecResample;                                                 *)
(*   - Image.cutImageToFit (lines 249-294) as an operator on placement     *)
(*     spans, checked under SpecCut;                                       *)
(*   - the widget's cache and drawing (updateDataRange, updateImage,       *)
(*     recomputeInternals, dataDraw), checked under Spec.                  *)
(*                                                                         *)
(* Coordinates are integers; every quotient the code takes in floating     *)
(* point is kept exact by cross-multiplication, so rounding error of the   *)
(* floating-point unit is not part of the model.                           *)
(***************************************************************************)
EXTENDS Integers, Sequences, FiniteSets, TLC

VARIABLES
    \* resampleLinear's arguments and its outcome
    xpts, ypts, outimg,
    \* cutImageToFit's arguments and its outcome
    cutin, cutout,
    \* the document: the dataset the 'data' setting resolves to, the change
    \* counter d.changeset, and the widget's settings
    data, changeset, settings,
    \* the Image widget: self.lastdataset, self.schangeset, self.image,
    \* self.cacheddatarange
    lastdataset, schangeset, image, cacheddatarange,
    \* the painter handed to dataDraw: its stack of saved transforms and its
    \* current transform
    painter,
    \* what the last call of dataDraw did
    last,
    \* the operation that made the last step, and a bit it flips
    op

funvars == <<xpts, ypts, outimg, cutin, cutout>>
widgetvars == <<data, changeset, settings, lastdataset, schangeset, image,
                cacheddatarange, painter, last, op>>
vars == <<xpts, ypts, outimg, cutin, cutout, data, changeset, settings,
          lastdataset, schangeset, image, cacheddatarange, painter, last, op>>

(***************************************************************************)
(* Arithmetic helpers.                                                     *)
(***************************************************************************)

\* Python's int() of the exact quotient a/b: truncation toward zero.
TruncDiv(a, b) ==
    IF b > 0
    THEN (IF a >= 0 THEN a \div b ELSE -((-a) \div b))
    ELSE (IF a >= 0 THEN -(a \div (-b)) ELSE (-a) \div (-b))

Abs(a) == IF a < 0 THEN -a ELSE a

SeqMin(s) == CHOOSE m \in {s[i] : i \in 1..Len(s)} : \A i \in 1..Len(s) : m <= s[i]
SeqMax(s) == CHOOSE m \in {s[i] : i \in 1..Len(s)} : \A i \in 1..Len(s) : m >= s[i]

\* pts[::-1]
Reverse(s) == [i \in 1..Len(s) |-> s[Len(s) + 1 - i]]

(***************************************************************************)
(* resampleLinear(img, xpts, ypts).                                        *)
(*                                                                         *)
(* The source raster is img; colours are copied verbatim (lines 77-78), so *)
(* the outcome is recorded as the source cell each output pixel reads:     *)
(* output pixel (ox, oy) reads img.pixel(xmap[ox+1], ymap[oy+1]).  The     *)
(* column cursor ix is reset for every row (line 72) and moves with ox     *)
(* alone, the row cursor iy moves with oy alone, so the two maps describe  *)
(* the whole raster.                                                       *)
(***************************************************************************)

\* the cap on the output size, lines 59-60
MaxSize == 1024

\* lines 45-48: a grid whose first point exceeds its last is reversed
NormaliseGrid(pts) == IF pts[1] > pts[Len(pts)] THEN Reverse(pts) ELSE pts

\* lines 51-52: (pts[1:]-pts[:-1]).min()
MinDelta(pts) == SeqMin([i \in 1..(Len(pts) - 1) |-> pts[i + 1] - pts[i]])

\* lines 57-58: int((max - min) / (mindelta*0.5) + 0.01)
RawSize(pts) ==
    LET ext == SeqMax(pts) - SeqMin(pts)
        md  == MinDelta(pts)
    IN  TruncDiv(200 * ext + md, 100 * md)

ClipSizeUncapped(size) == size

\* lines 59-60: min(size, 1024)
ClipSize(size) == IF size < MaxSize THEN size ELSE MaxSize

\* lines 69 and 74: the loop test  min+(o+0.5)*delta > pts[i+1] and i < len(pts)-2
\* with delta = (max-min)/size (lines 62-63), multiplied through by 2*size > 0
CursorAdvances(pts, size, lo, ext, o, i) ==
    /\ 2 * size * lo + (2 * o + 1) * ext > 2 * size * pts[i + 2]
    /\ i < Len(pts) - 2

\* lines 69-70 and 74-75: the while loop that moves the cursor for output pixel o
RECURSIVE Cursor(_, _, _, _, _, _)
Cursor(pts, size, lo, ext, o, i) ==
    IF CursorAdvances(pts, size, lo, ext, o, i)
    THEN Cursor(pts, size, lo, ext, o, i + 1)
    ELSE i

\* lines 68-75: the for loop over output pixels a..b, entered with the cursor at i;
\* the cursor is carried from one pixel to the next.  The run a..b is the run a..m
\* followed by the run m+1..b.
RECURSIVE Sweep(_, _, _, _, _, _, _)
Sweep(pts, size, lo, ext, a, b, i) ==
    IF a > b THEN <<>>
    ELSE IF a = b THEN << Cursor(pts, size, lo, ext, a, i) >>
    ELSE LET m    == (a + b) \div 2
             left == Sweep(pts, size, lo, ext, a, m, i)
         IN  left \o Sweep(pts, size, lo, ext, m + 1, b, left[Len(left)])

\* the source index read by each output pixel along one axis
AxisMap(pts, size) ==
    Sweep(pts, size, SeqMin(pts), SeqMax(pts) - SeqMin(pts), 0, size - 1, 0)

Raise(e) == [kind |-> "raise", exc |-> e]

\* qt4.QImage(sizex, sizey, format), line 65: a null image unless both are positive
NullImage == [kind |-> "image", sizex |-> 0, sizey |-> 0, xmap |-> <<>>, ymap |-> <<>>]

\* lines 37-80.  The failures are those Python and numpy raise on the way:
\*   pts[0] on an empty grid (lines 45, 47)              IndexError
\*   .min() of an empty difference array (lines 51, 52)  ValueError
\*   a zero mindelta: numpy divides by zero and yields nan (0/0) or inf (x/0),
\*   and int() of it raises (lines 57, 58)               ValueError / OverflowError
resampleLinear(xp, yp) ==
    IF Len(xp) = 0 \/ Len(yp) = 0 THEN Raise("IndexError")
    ELSE LET xs == NormaliseGrid(xp)
             ys == NormaliseGrid(yp)
         IN
         IF Len(xs) = 1 \/ Len(ys) = 1 THEN Raise("ValueError")
         ELSE IF MinDelta(xs) = 0
              THEN (IF SeqMax(xs) = SeqMin(xs) THEN Raise("ValueError")
                                               ELSE Raise("OverflowError"))
         ELSE IF MinDelta(ys) = 0
              THEN (IF SeqMax(ys) = SeqMin(ys) THEN Raise("ValueError")
                                               ELSE Raise("OverflowError"))
         ELSE LET sizex == ClipSize(RawSize(xs))
                  sizey == ClipSize(RawSize(ys))
              IN  IF sizex <= 0 \/ sizey <= 0 THEN NullImage
                  ELSE [kind  |-> "image",
                        sizex |-> sizex,
                        sizey |-> sizey,
                        xmap  |-> AxisMap(xs, sizex),
                        ymap  |-> AxisMap(ys, sizey)]

(***************************************************************************)
(* Image.cutImageToFit(pltx, plty, posn), lines 249-294.                   *)
(*                                                                         *)
(* pltx = (pltx1, pltx2) and plty = (plty2, plty1) are the placement       *)
(* spans, posn = (x1, y1, x2, y2) the viewport, imw x imh the size of      *)
(* self.image.  pixw = pltw/imw and pixh = plth/imh are fractions, so the  *)
(* returned spans are kept as numerators over imw and imh.                 *)
(***************************************************************************)

ChopLeadingRounded(over, span, n) == TruncDiv(2 * over * n + span, 2 * span)

\* lines 267 and 279: d = int(over / pix), with pix = span/n
ChopLeading(over, span, n) == TruncDiv(over * n, span)

\* lines 273 and 285: d = max(0, int(over / pix) - 1)
ChopTrailing(over, span, n) ==
    LET d == TruncDiv(over * n, span) - 1
    IN  IF d > 0 THEN d ELSE 0

cutImageToFit(pltx, plty, posn, imw, imh) ==
    LET x1 == posn[1]
        y1 == posn[2]
        x2 == posn[3]
        y2 == posn[4]
        pltx1 == pltx[1]
        pltx2 == pltx[2]
        pltw  == pltx2 - pltx1
        plty2 == plty[1]
        plty1 == plty[2]
        plth  == plty2 - plty1
        chopl == pltx1 < x1
        chopr == pltx2 > x2
        chopt == plty1 < y1
        chopb == plty2 > y2
    IN
    \* a zero pixw or pixh: the quotient is inf and int() raises
    IF (pltw = 0 /\ (chopl \/ chopr)) \/ (plth = 0 /\ (chopt \/ chopb))
    THEN Raise("OverflowError")
    ELSE LET dl == IF chopl THEN ChopLeading(x1 - pltx1, pltw, imw) ELSE 0
             dr == IF chopr THEN ChopTrailing(pltx2 - x2, pltw, imw) ELSE 0
             dt == IF chopt THEN ChopLeading(y1 - plty1, plth, imh) ELSE 0
             db == IF chopb THEN ChopTrailing(plty2 - y2, plth, imh) ELSE 0
         IN  [kind |-> "cut",
              \* cutr, lines 260-286
              cutr |-> <<dl, dt, imw - 1 - dr, imh - 1 - db>>,
              \* pltx, over imw: pltx[0] += d*pixw, pltx[1] -= d*pixw
              pltx |-> <<pltx1 * imw + dl * pltw, pltx2 * imw - dr * pltw>>,
              \* plty, over imh: plty[1] += d*pixh, plty[0] -= d*pixh
              plty |-> <<plty2 * imh - db * plth, plty1 * imh + dt * plth>>,
              \* self.image.copy(left, top, width, height), lines 290-291
              neww |-> imw - dr - dl,
              newh |-> imh - db - dt]

(***************************************************************************)
(* SpecCut: cutImageToFit applied to placement spans in either order, a    *)
(* viewport and a raster size drawn from bounded sets.                     *)
(***************************************************************************)

CutRange == 3
MaxIm == 3

CutCoords == (-CutRange)..CutRange

Viewports == {<<-1, -1, 1, 1>>, <<0, -2, 2, 1>>}

(***************************************************************************)
(* The document and the settings the widget reads, lines 111-168, 199-201. *)
(*                                                                         *)
(* A dataset is known to the widget by its identity, its dimensions,       *)
(* whether it carries xgrid and ygrid, the shape of its data array and     *)
(* the nanmin and nanmax of its data.  None is the dataset of identity 0.  *)
(***************************************************************************)

MaxData == 3
MaxChange == 2

NoData == [id |-> 0, dimensions |-> 0, xgrid |-> FALSE, ygrid |-> FALSE,
           w |-> 0, h |-> 0, vmin |-> 0, vmax |-> 0]

\* the datasets of the document: 2-dimensional without grids, 2-dimensional with
\* both grids, 1-dimensional, 2-dimensional with xgrid alone, and so on
Dataset(i) ==
    [id         |-> i,
     dimensions |-> IF i % 4 = 3 THEN 1 ELSE 2,
     xgrid      |-> i % 4 \in {0, 2},
     ygrid      |-> i % 4 = 2,
     w          |-> 4,
     h          |-> 2,
     vmin       |-> i + 1,
     vmax       |-> i + 4]

DataChoices == {NoData} \cup {Dataset(i) : i \in 1..MaxData}

\* a FloatOrAuto setting, lines 117-126
Auto == [auto |-> TRUE, val |-> 0]
Num(n) == [auto |-> FALSE, val |-> n]

SettingsChoices == [min : {Auto, Num(0)}, max : {Auto}, smooth : BOOLEAN, hide : BOOLEAN]

\* the settings with smoothing off
UnsmoothedChoices == {s \in SettingsChoices : ~s.smooth}

(***************************************************************************)
(* The widget.                                                             *)
(***************************************************************************)

\* self.image before the first build: the attribute is not set by __init__
NoImage == [src |-> 0, rev |-> -1, w |-> 0, h |-> 0, grid |-> <<>>, cut |-> <<>>]

\* utils.applyColorMap(cmap, scaling, data.data, min, max, ...), lines 210-213:
\* a raster of the shape of the data, of this dataset at this revision and range
applyColorMap(d, rev, rng) ==
    [src |-> d.id, rev |-> rev, w |-> d.w, h |-> d.h, grid |-> <<rng>>, cut |-> <<>>]

\* lines 180-192
updateDataRange(s, d) ==
    << IF s.min = Auto /\ d # NoData THEN Num(d.vmin) ELSE s.min,
       IF s.max = Auto /\ d # NoData THEN Num(d.vmax) ELSE s.max >>

\* lines 194-220.  fail names the step that raises, if any: the range
\* computation (nanmin, nanmax), the colour mapping (getColormap, applyColorMap)
\* or the axis mapping of the grids (fetchAxes, dataToPlotterCoords); gx and gy
\* are the grids in plotter coordinates the axes return.  The outcome is the
\* widget's image and cacheddatarange when updateImage returns or raises.
updateImage(d, s, rev, gx, gy, fail, img, rng) ==
    IF fail = "range"
    THEN [image |-> img, range |-> rng, raised |-> TRUE, stage |-> "range"]
    ELSE LET rng1 == updateDataRange(s, d)
             base == applyColorMap(d, rev, rng1)
         IN  IF fail = "colormap"
             THEN [image |-> img, range |-> rng1, raised |-> TRUE, stage |-> "colormap"]
             ELSE IF ~(d.xgrid \/ d.ygrid)
             THEN [image |-> base, range |-> rng1, raised |-> FALSE, stage |-> ""]
             ELSE IF fail = "axes"
             THEN [image |-> base, range |-> rng1, raised |-> TRUE, stage |-> "axes"]
             ELSE LET r == resampleLinear(gx, gy)
                  IN  IF r.kind = "raise"
                      THEN [image |-> base, range |-> rng1, raised |-> TRUE,
                            stage |-> "resample"]
                      ELSE [image  |-> [base EXCEPT !.w = r.sizex, !.h = r.sizey,
                                                    !.grid = <<rng1, gx, gy>>],
                            range  |-> rng1,
                            raised |-> FALSE,
                            stage  |-> ""]

RebuildUnlessGridded(d, lastd, sch, cs) == d # lastd \/ sch # cs

\* lines 321-324: the test that decides a rebuild
RebuildNeeded(d, lastd, sch, cs) ==
    LET nonlinear == d.xgrid \/ d.ygrid
    IN  d # lastd \/ sch # cs \/ nonlinear

HasDataAnyDimension(d) == d # NoData

\* line 320
HasData2D(d) == d # NoData /\ d.dimensions = 2

\* lines 309-330.  The outcome: whether there is data, whether updateImage was
\* called and whether it raised, and the widget's fields afterwards.
recomputeInternals(d, s, cs, gx, gy, fail, lastd, sch, img, rng) ==
    IF HasData2D(d)
    THEN IF RebuildNeeded(d, lastd, sch, cs)
         THEN LET u == updateImage(d, s, cs, gx, gy, fail, img, rng)
              IN  [hasdata |-> TRUE, rebuilt |-> TRUE, raised |-> u.raised,
                   stage |-> u.stage, image |-> u.image, range |-> u.range,
                   lastdataset |-> IF u.raised THEN lastd ELSE d,
                   schangeset  |-> IF u.raised THEN sch ELSE cs]
         ELSE [hasdata |-> TRUE, rebuilt |-> FALSE, raised |-> FALSE, stage |-> "",
               image |-> img, range |-> rng, lastdataset |-> lastd, schangeset |-> sch]
    ELSE [hasdata |-> FALSE, rebuilt |-> FALSE, raised |-> FALSE, stage |-> "",
          image |-> img, range |-> rng, lastdataset |-> lastd, schangeset |-> sch]

\* lines 352-353: the test that sends the raster to cutImageToFit
NeedsCut(coordsx, coordsy, posn) ==
    \/ coordsx[1] < posn[1]
    \/ coordsx[2] > posn[3]
    \/ coordsy[1] < posn[2]
    \/ coordsy[2] > posn[4]

\* QImage.copy(x, y, w, h), lines 290-291: the whole image for an all-zero
\* rectangle size, a null image for an empty one, else a w x h image
CopyImage(img, cutr, w, h) ==
    IF w = 0 /\ h = 0 THEN img
    ELSE IF w <= 0 \/ h <= 0 THEN [img EXCEPT !.w = 0, !.h = 0, !.cut = cutr]
    ELSE [img EXCEPT !.w = w, !.h = h, !.cut = cutr]

\* QImage.scaled(w, h, IgnoreAspectRatio, SmoothTransformation), lines 362-364:
\* a null image when w or h is not positive
ScaledImage(img, w, h) ==
    IF w <= 0 \/ h <= 0
    THEN [img EXCEPT !.w = 0, !.h = 0, !.cut = <<"scaled">> \o img.cut]
    ELSE [img EXCEPT !.w = w, !.h = h, !.cut = <<"scaled">> \o img.cut]

\* the painter: painter.save(), lines 379-382 and 389
Identity == [sx |-> 1, sy |-> 1]
NewPainter == [saved |-> <<>>, xform |-> Identity]
Save(p) == [p EXCEPT !.saved = Append(p.saved, p.xform)]
\* painter.translate(xp, yp); painter.scale(xscale, yscale): of the transform the
\* scale is kept, the origin is not
TranslateScale(p, xscale, yscale) ==
    [p EXCEPT !.xform = [sx |-> p.xform.sx * xscale, sy |-> p.xform.sy * yscale]]
Restore(p) ==
    [saved |-> SubSeq(p.saved, 1, Len(p.saved) - 1), xform |-> p.saved[Len(p.saved)]]

LastNone ==
    [outcome |-> "none", stage |-> "", rebuilt |-> FALSE, cropped |-> FALSE,
     inverted |-> FALSE, smooth |-> FALSE,
     native |-> <<0, 0>>, raster |-> NoImage, target |-> <<0, 1, 0, 1>>,
     coordsx |-> <<0, 0>>, coordsy |-> <<0, 0>>]

\* lines 342-389, entered with data present and not hidden.  coordsx and coordsy
\* are the plotter coordinates of the data ranges the axes return (lines
\* 346-347); img is self.image.  Spans are numerators over xden and yden.
Place(s, p, posn, coordsx, coordsy, img, fail) ==
    LET needcut == NeedsCut(coordsx, coordsy, posn)
        c       == cutImageToFit(coordsx, coordsy, posn, img.w, img.h)
    IN
    IF needcut /\ c.kind = "raise"
    THEN [outcome |-> "raise", stage |-> "cut", cropped |-> TRUE, inverted |-> FALSE,
          native |-> <<0, 0>>, raster |-> NoImage, target |-> <<0, 1, 0, 1>>,
          painter |-> p]
    ELSE
    LET cx    == IF needcut THEN c.pltx ELSE coordsx
        cy    == IF needcut THEN c.plty ELSE coordsy
        xden  == IF needcut THEN img.w ELSE 1
        yden  == IF needcut THEN img.h ELSE 1
        im1   == IF needcut THEN CopyImage(img, c.cutr, c.neww, c.newh) ELSE img
        \* lines 368-369, as numerators
        xw    == cx[2] - cx[1]
        yw    == cy[1] - cy[2]
        \* lines 361-364; the float arguments are cut to integers
        im2   == IF s.smooth
                 THEN ScaledImage(im1, TruncDiv(xw, xden), TruncDiv(yw, yden))
                 ELSE im1
        inv   == xw < 0 \/ yw < 0
        p1    == IF inv
                 THEN TranslateScale(Save(p), IF xw < 0 THEN -1 ELSE 1,
                                              IF yw < 0 THEN -1 ELSE 1)
                 ELSE p
        tgt   == <<Abs(xw), xden, Abs(yw), yden>>
    IN
    IF fail = "drawImage"
    THEN [outcome |-> "raise", stage |-> "drawImage", cropped |-> needcut,
          inverted |-> inv, native |-> <<im1.w, im1.h>>, raster |-> im2,
          target |-> tgt, painter |-> p1]
    ELSE [outcome |-> "drawn", stage |-> "", cropped |-> needcut,
          inverted |-> inv, native |-> <<im1.w, im1.h>>, raster |-> im2,
          target |-> tgt,
          painter |-> IF inv THEN Restore(p1) ELSE p1]

(***************************************************************************)
(* Spec: one Image widget, its document and its painter.                   *)
(***************************************************************************)

\* the viewport is (0, 0, Side, Side); placements overflow it by Over
Side == 4
Over == 2
\* the painter states a failed draw may leave saved
MaxSaved == 1

Posn == <<0, 0, Side, Side>>

\* placement spans of the x range (low data value first): within the viewport,
\* over its left edge, over its right edge, over both, and inverted
XSpans == {<<0, Side>>, <<-Over, Side>>, <<0, Side + Over>>,
           <<-Over, Side + Over>>, <<Side, 0>>, <<Side + Over, -Over>>}

\* placement spans of the y range (low data value first, which a y axis puts at
\* the larger plotter coordinate): within the viewport, over its top edge, over
\* its bottom edge, over both, inverted, and wholly above the viewport
YSpans == {<<Side, 0>>, <<Side, -Over>>, <<Side + Over, 0>>,
           <<Side + Over, -Over>>, <<0, Side>>, <<-Over, -Over - Side>>}

\* the edge grids in plotter coordinates: ascending, descending, degenerate
AscendingGrids == << <<0, 1, 2, 3, 5>>, <<0, 1, 3>> >>
DrawGrids == {AscendingGrids,
              << <<5, 3, 2, 1, 0>>, <<3, 1, 0>> >>,
              << <<2, 2, 2, 2, 2>>, <<0, 1, 3>> >>}

Failures == {"none", "range", "colormap", "axes", "drawImage"}

InitWidgetWith(choices) ==
    /\ data \in DataChoices
    /\ changeset = 0
    /\ settings \in choices
    \* lines 95-101
    /\ lastdataset = NoData
    /\ schangeset = -1
    /\ image = NoImage
    /\ cacheddatarange = <<Num(0), Num(1)>>
    /\ painter = NewPainter
    /\ last = LastNone
    /\ op = [name |-> "init", tick |-> FALSE]

InitWidget == InitWidgetWith(UnsmoothedChoices)

Step(name) == op' = [name |-> name, tick |-> ~op.tick]

\* Image.dataDraw(painter, axes, posn, clip), lines 332-389
dataDraw(coordsx, coordsy, grids, fail) ==
    \E r \in {recomputeInternals(data, settings, changeset, grids[1], grids[2], fail,
                                 lastdataset, schangeset, image, cacheddatarange)} :
    \E pl \in {IF r.raised \/ ~r.hasdata \/ settings.hide
               THEN [outcome  |-> IF r.raised THEN "raise"
                                  ELSE IF ~r.hasdata THEN "nodata" ELSE "hidden",
                     stage    |-> r.stage,
                     cropped  |-> FALSE,
                     inverted |-> FALSE,
                     native   |-> <<0, 0>>,
                     raster   |-> NoImage,
                     target   |-> <<0, 1, 0, 1>>,
                     painter  |-> painter]
               ELSE Place(settings, painter, Posn, coordsx, coordsy, r.image, fail)} :
        /\ lastdataset' = r.lastdataset
        /\ schangeset' = r.schangeset
        /\ image' = r.image
        /\ cacheddatarange' = r.range
        /\ painter' = pl.painter
        /\ last' = [outcome  |-> pl.outcome,
                    stage    |-> pl.stage,
                    rebuilt  |-> r.rebuilt,
                    cropped  |-> pl.cropped,
                    inverted |-> pl.inverted,
                    smooth   |-> settings.smooth,
                    native   |-> pl.native,
                    raster   |-> pl.raster,
                    target   |-> pl.target,
                    coordsx  |-> coordsx,
                    coordsy  |-> coordsy]

\* one call of dataDraw, its arguments and the outcomes of the calls it makes
\* outside this file drawn from the given sets
DrawWith(xspans, yspans, gridpairs, failures) ==
    \E coordsx \in xspans, coordsy \in yspans, grids \in gridpairs, fail \in failures :
        /\ fail = "drawImage" => Len(painter.saved) < MaxSaved
        /\ dataDraw(coordsx, coordsy, grids, fail)
        /\ Step("draw")
        /\ UNCHANGED <<data, changeset, settings>>
        /\ UNCHANGED funvars

\* a draw of a placement that fills the viewport
Draw == DrawWith({<<0, Side>>}, {<<Side, 0>>}, DrawGrids, Failures)

\* a draw of any placement, the rebuild succeeding
DrawPlaced == DrawWith(XSpans, YSpans, {AscendingGrids}, {"none", "drawImage"})

\* the document is modified: the dataset is replaced or changed in place, the
\* settings are changed; every modification counts in d.changeset
ModifyDocument ==
    /\ changeset < MaxChange
    /\ changeset' = changeset + 1
    /\ data' \in DataChoices
    /\ settings' \in UnsmoothedChoices
    /\ Step("modify")
    /\ UNCHANGED <<lastdataset, schangeset, image, cacheddatarange, painter, last>>
    /\ UNCHANGED funvars

\* s.get('data').getData(d) hands out another dataset object for an unchanged
\* document (a dataset expression is evaluated anew)
Reevaluate ==
    /\ data # NoData
    /\ data' \in DataChoices \ {NoData, data}
    /\ Step("reevaluate")
    /\ UNCHANGED <<changeset, settings, lastdataset, schangeset, image,
                   cacheddatarange, painter, last>>
    /\ UNCHANGED funvars

\* Image.getColorbarParameters, lines 296-307
GetColorbarParameters ==
    /\ cacheddatarange' = updateDataRange(settings, data)
    /\ Step("colorbar")
    /\ UNCHANGED <<data, changeset, settings, lastdataset, schangeset, image,
                   painter, last>>
    /\ UNCHANGED funvars

Init ==
    /\ xpts = <<>>
    /\ ypts = <<>>
    /\ outimg = [kind |-> "none"]
    /\ cutin = [kind |-> "none"]
    /\ cutout = [kind |-> "none"]
    /\ InitWidget

Next ==
    \/ Draw
    \/ ModifyDocument
    \/ Reevaluate
    \/ GetColorbarParameters

Spec == Init /\ [][Next]_vars

(***************************************************************************)
(* SpecPlace: draws of an unchanging document under every placement.       *)
(***************************************************************************)

InitPlace ==
    /\ xpts = <<>>
    /\ ypts = <<>>
    /\ outimg = [kind |-> "none"]
    /\ cutin = [kind |-> "none"]
    /\ cutout = [kind |-> "none"]
    /\ InitWidgetWith(SettingsChoices)

NextPlace == DrawPlaced

SpecPlace == InitPlace /\ [][NextPlace]_vars

(***************************************************************************)
(* SpecResample: resampleLinear applied to edge grids drawn from a bounded *)
(* set: grids of 0..MaxPts points, in any order (ascending, descending,    *)
(* constant, non-monotonic), one coordinate far from the others so that    *)
(* the size cap is met.                                                    *)
(***************************************************************************)

MaxPts == 3
FarCoord == 600

GridCoords == {0, 1, 3, FarCoord}

Grids == UNION {[1..n -> GridCoords] : n \in 0..MaxPts}

NoCall == [kind |-> "none"]
NoCut == [kind |-> "none"]

InitResample ==
    /\ xpts \in Grids
    /\ ypts \in Grids
    /\ outimg = NoCall
    /\ cutin = NoCut
    /\ cutout = NoCut
    /\ InitWidget

Resample ==
    /\ outimg = NoCall
    /\ outimg' = resampleLinear(xpts, ypts)
    /\ UNCHANGED <<xpts, ypts, cutin, cutout>>
    /\ UNCHANGED widgetvars

NextResample == Resample

SpecResample == InitResample /\ [][NextResample]_vars

InitCut ==
    /\ xpts = <<>>
    /\ ypts = <<>>
    /\ outimg = NoCall
    /\ cutin \in [kind : {"args"},
                  pltx : CutCoords \X CutCoords,
                  plty : CutCoords \X CutCoords,
                  posn : Viewports,
                  imw  : 1..MaxIm,
                  imh  : 1..MaxIm]
    /\ cutout = NoCut
    /\ InitWidget

Cut ==
    /\ cutin # NoCut
    /\ cutout = NoCut
    /\ cutout' = cutImageToFit(cutin.pltx, cutin.plty, cutin.posn, cutin.imw, cutin.imh)
    /\ UNCHANGED <<xpts, ypts, outimg, cutin>>
    /\ UNCHANGED widgetvars

NextCut == Cut

SpecCut == InitCut /\ [][NextCut]_vars

(***************************************************************************)
(* Claims about resampleLinear.                                            *)
(***************************************************************************)

Resampled == outimg # NoCall

\* a valid edge grid: at least two points, strictly ascending or strictly descending
Ascending(pts)  == Len(pts) >= 2 /\ \A i \in 1..(Len(pts) - 1) : pts[i] < pts[i + 1]
Descending(pts) == Len(pts) >= 2 /\ \A i \in 1..(Len(pts) - 1) : pts[i] > pts[i + 1]
ValidGrid(pts)  == Ascending(pts) \/ Descending(pts)

\* a degenerate edge grid: no point, one point, or all coordinates equal
DegenerateGrid(pts) == Len(pts) <= 1 \/ \A i \in 1..Len(pts) : pts[i] = pts[1]

\* Source cell k (counted from 0 in the raster's own order) lies between the
\* edges pts[k+1] and pts[k+2] of the grid as given; the point num/den lies in it.
\* Both ends are admitted, so that the test does not depend on which end of the
\* half-open interval is the closed one.
CellContains(pts, k, num, den) ==
    LET a == pts[k + 1]
        b == pts[k + 2]
        lo == IF a < b THEN a ELSE b
        hi == IF a < b THEN b ELSE a
    IN  lo * den <= num /\ num <= hi * den

\* The centre of output pixel o of size pixels, as num/(2*size): counted from the
\* low end of the extent ...
CentreFromLow(pts, size, o) == 2 * size * SeqMin(pts) + (2 * o + 1) * (SeqMax(pts) - SeqMin(pts))
\* ... or counted from the grid's first edge, the orientation of the source raster
CentreFromFirst(pts, size, o) ==
    IF pts[1] > pts[Len(pts)]
    THEN 2 * size * SeqMax(pts) - (2 * o + 1) * (SeqMax(pts) - SeqMin(pts))
    ELSE CentreFromLow(pts, size, o)

AxisReadsEnclosingCell(pts, size, map) ==
    \/ \A o \in 0..(size - 1) :
          CellContains(pts, map[o + 1], CentreFromLow(pts, size, o), 2 * size)
    \/ \A o \in 0..(size - 1) :
          CellContains(pts, map[o + 1], CentreFromFirst(pts, size, o), 2 * size)

\* C4: for valid edge grids, ascending or descending, every output pixel is
\* assigned the colour of the source cell (in the raster's original order) whose
\* edge interval contains the pixel's centre, on each axis.  The centre may be
\* read in either orientation; the statement fails in both.
C4_EveryPixelReadsEnclosingCell ==
    (Resampled /\ ValidGrid(xpts) /\ ValidGrid(ypts)) =>
        /\ outimg.kind = "image"
        /\ AxisReadsEnclosingCell(xpts, outimg.sizex, outimg.xmap)
        /\ AxisReadsEnclosingCell(ypts, outimg.sizey, outimg.ymap)

\* C4 restricted to ascending grids: there the sweep reads the enclosing
\* half-open cell (pts[k], pts[k+1]].
C4_AscendingReadsEnclosingCell ==
    (Resampled /\ Ascending(xpts) /\ Ascending(ypts)) =>
        /\ outimg.kind = "image"
        /\ \A o \in 0..(outimg.sizex - 1) :
              LET k == outimg.xmap[o + 1]
                  c == CentreFromLow(xpts, outimg.sizex, o)
              IN  \/ xpts[k + 1] * 2 * outimg.sizex < c /\ c <= xpts[k + 2] * 2 * outimg.sizex
        /\ \A o \in 0..(outimg.sizey - 1) :
              LET k == outimg.ymap[o + 1]
                  c == CentreFromLow(ypts, outimg.sizey, o)
              IN  \/ ypts[k + 1] * 2 * outimg.sizey < c /\ c <= ypts[k + 2] * 2 * outimg.sizey

\* C5: for valid (strictly monotonic) edge grids resampleLinear returns a raster
\* whose width and height are each at least 1 and at most 1024.
C5_SizeWithinCap ==
    (Resampled /\ ValidGrid(xpts) /\ ValidGrid(ypts)) =>
        /\ outimg.kind = "image"
        /\ 1 <= outimg.sizex /\ outimg.sizex <= 1024
        /\ 1 <= outimg.sizey /\ outimg.sizey <= 1024

\* a grid so fine that the uncapped size exceeds the cap was resampled, on a
\* descending x grid and an ascending y grid
C5_Witness ==
    /\ Resampled
    /\ Descending(xpts) /\ Ascending(ypts)
    /\ RawSize(NormaliseGrid(xpts)) > 1024
    /\ RawSize(ypts) < 1024
    /\ outimg.kind = "image"
    /\ outimg.sizex = 1024
    /\ outimg.sizey = RawSize(ypts)

\* C8: on a degenerate edge grid on either axis resampleLinear ends with the
\* dedicated InvalidGrid failure (and so returns no raster).
C8_DegenerateGridRaisesInvalidGrid ==
    (Resampled /\ (DegenerateGrid(xpts) \/ DegenerateGrid(ypts))) =>
        outimg = Raise("InvalidGrid")

(***************************************************************************)
(* Claims about cutImageToFit.                                             *)
(***************************************************************************)

CutDone == cutout # NoCut /\ cutout.kind = "cut"

Lower(a, b) == IF a < b THEN a ELSE b
Upper(a, b) == IF a < b THEN b ELSE a

\* [a1, a2] (either order) and [b1, b2] (either order), all over den, overlap in
\* more than a point
Overlaps(a1, a2, b1, b2) ==
    Upper(Lower(a1, a2), Lower(b1, b2)) < Lower(Upper(a1, a2), Upper(b1, b2))

\* [a1, a2] (either order) contains the common part of [o1, o2] and [v1, v2]
CoversCommonPart(a1, a2, o1, o2, v1, v2) ==
    Overlaps(o1, o2, v1, v2) =>
        /\ Lower(a1, a2) <= Upper(Lower(o1, o2), Lower(v1, v2))
        /\ Upper(a1, a2) >= Lower(Upper(o1, o2), Upper(v1, v2))

\* C3: the sub-raster returned by cutImageToFit keeps every pixel column and row
\* of the raster that overlaps the viewport, its columns and rows lie at the
\* returned spans where they lay in the original placement, and the returned
\* spans cover the common part of the original placement and the viewport.
C3_CutCoversVisiblePart ==
    CutDone =>
        LET imw   == cutin.imw
            imh   == cutin.imh
            pltx1 == cutin.pltx[1]
            pltx2 == cutin.pltx[2]
            plty2 == cutin.plty[1]
            plty1 == cutin.plty[2]
            pltw  == pltx2 - pltx1
            plth  == plty2 - plty1
            x1    == cutin.posn[1]
            y1    == cutin.posn[2]
            x2    == cutin.posn[3]
            y2    == cutin.posn[4]
            cutr  == cutout.cutr
        IN
        \* no column or row that overlaps the viewport is trimmed
        /\ \A c \in 0..(imw - 1) :
              Overlaps(pltx1 * imw + c * pltw, pltx1 * imw + (c + 1) * pltw,
                       x1 * imw, x2 * imw)
              => (cutr[1] <= c /\ c <= cutr[3])
        /\ \A r \in 0..(imh - 1) :
              Overlaps(plty1 * imh + r * plth, plty1 * imh + (r + 1) * plth,
                       y1 * imh, y2 * imh)
              => (cutr[2] <= r /\ r <= cutr[4])
        \* the kept columns and rows stay where they were
        /\ cutout.pltx[1] = pltx1 * imw + cutr[1] * pltw
        /\ cutout.pltx[2] = pltx1 * imw + (cutr[3] + 1) * pltw
        /\ cutout.plty[2] = plty1 * imh + cutr[2] * plth
        /\ cutout.plty[1] = plty1 * imh + (cutr[4] + 1) * plth
        \* the returned spans cover the visible part of the placement
        /\ CoversCommonPart(cutout.pltx[1], cutout.pltx[2],
                            pltx1 * imw, pltx2 * imw, x1 * imw, x2 * imw)
        /\ CoversCommonPart(cutout.plty[1], cutout.plty[2],
                            plty1 * imh, plty2 * imh, y1 * imh, y2 * imh)

\* a placement that overflows the viewport on the left and at the bottom was cut
\* by whole pixels on both sides and still overlaps the viewport
C3_Witness ==
    /\ CutDone
    /\ cutout.cutr[1] > 0
    /\ cutout.cutr[4] < cutin.imh - 1
    /\ Overlaps(cutin.pltx[1], cutin.pltx[2], cutin.posn[1], cutin.posn[3])
    /\ Overlaps(cutin.plty[1], cutin.plty[2], cutin.posn[2], cutin.posn[4])
    /\ cutout.neww >= 1 /\ cutout.neww < cutin.imw
    /\ cutout.newh >= 1 /\ cutout.newh < cutin.imh

\* the same with the x span inverted: nothing of the visible part is trimmed
C3_WitnessInverted ==
    /\ CutDone
    /\ cutin.pltx[1] > cutin.pltx[2]
    /\ cutin.plty[1] > cutin.posn[4]
    /\ Overlaps(cutin.pltx[1], cutin.pltx[2], cutin.posn[1], cutin.posn[3])
    /\ Overlaps(cutin.plty[1], cutin.plty[2], cutin.posn[2], cutin.posn[4])

(***************************************************************************)
(* Claims about the widget's cache (Spec).                                 *)
(***************************************************************************)

\* the step is a call of dataDraw
DrawStep == op'.name = "draw" /\ op'.tick # op.tick

\* the call of dataDraw recorded in l ended in updateImage raising
RebuildRaised(l) ==
    l.outcome = "raise" /\ l.stage \in {"range", "colormap", "axes", "resample"}

\* the dataset is present and 2-dimensional
Drawable == data # NoData /\ data.dimensions = 2

\* the dataset identity differs from the one recorded, or the change counter
\* differs from the one recorded, or the dataset carries a non-linear grid
CacheStale ==
    \/ data.id # lastdataset.id
    \/ changeset # schangeset
    \/ data.xgrid
    \/ data.ygrid

\* C1 as stated: on a present 2-dimensional dataset a draw calls updateImage if
\* and only if the identity differs, the counter differs or a grid is present;
\* after every rebuild the recorded identity and counter are the current ones;
\* the second of two consecutive draws on unchanged, grid-free data reuses the
\* raster without rebuilding.
C1_RebuildIffStale_AlwaysRecorded ==
    [][(DrawStep /\ Drawable) =>
          /\ last'.rebuilt <=> CacheStale
          /\ last'.rebuilt => (lastdataset' = data /\ schangeset' = changeset)
          /\ (op.name = "draw" /\ ~data.xgrid /\ ~data.ygrid)
                => (~last'.rebuilt /\ image' = image)]_vars

\* C1 as amended: the same, the recorded identity and counter being the current
\* ones after every rebuild in which updateImage returns; when it raises they
\* are left as they were, and the next draw rebuilds again.
C1_RebuildIffStale_RecordedOnReturn ==
    [][(DrawStep /\ Drawable) =>
          /\ last'.rebuilt <=> CacheStale
          /\ (last'.rebuilt /\ ~RebuildRaised(last'))
                => (lastdataset' = data /\ schangeset' = changeset)
          /\ (last'.rebuilt /\ RebuildRaised(last'))
                => (lastdataset' = lastdataset /\ schangeset' = schangeset)
          /\ (op.name = "draw" /\ ~RebuildRaised(last) /\ ~data.xgrid /\ ~data.ygrid)
                => (~last'.rebuilt /\ image' = image)]_vars

\* after the document was modified and the raster rebuilt, a further draw of the
\* unchanged grid-free dataset has reused the raster
C1_Witness ==
    /\ op.name = "draw"
    /\ last.outcome = "drawn"
    /\ ~last.rebuilt
    /\ changeset > 0
    /\ Drawable
    /\ lastdataset = data
    /\ schangeset = changeset
    /\ image.src = data.id /\ image.rev = changeset

\* C2: a draw whose rebuild fails leaves self.image and self.cacheddatarange
\* exactly as they were.
C2_FailedRebuildKeepsCache ==
    [][(DrawStep /\ RebuildRaised(last')) =>
          (image' = image /\ cacheddatarange' = cacheddatarange)]_vars

\* C7: with the dataset absent or not 2-dimensional dataDraw is a no-op:
\* updateImage is not called, no raster is produced or drawn, nothing is raised,
\* and the cached raster, the recorded identity and the recorded counter stay.
C7_NoDataDrawIsNoOp ==
    [][(DrawStep /\ ~Drawable) =>
          /\ last'.outcome = "nodata"
          /\ ~last'.rebuilt
          /\ last'.raster = NoImage
          /\ image' = image
          /\ lastdataset' = lastdataset
          /\ schangeset' = schangeset
          /\ painter' = painter]_vars

\* a 1-dimensional dataset was drawn after a raster had been built from another
C7_Witness ==
    /\ op.name = "draw"
    /\ last.outcome = "nodata"
    /\ data # NoData /\ data.dimensions = 1
    /\ image # NoImage
    /\ lastdataset # NoData /\ lastdataset # data

(***************************************************************************)
(* Claims about the placement (SpecPlace).                                 *)
(***************************************************************************)

\* the last call of dataDraw handed a raster to painter.drawImage
HandedToPainter ==
    /\ op.name = "draw"
    /\ \/ last.outcome = "drawn"
       \/ last.outcome = "raise" /\ last.stage = "drawImage"

\* C6: whatever draws were made, failed or not, every painter.save has had its
\* painter.restore and the painter's transform is the one it was handed with.
C6_PainterRestoredAfterEveryDraw ==
    painter = NewPainter

\* C9: with smoothing on, the raster handed to painter.drawImage has exactly the
\* pixel size |width| x |height| of the target (in whole pixels), also when
\* width or height is negative; with smoothing off it is handed over at its
\* native size.  Rasters that are empty before smoothing are left out.
C9_SmoothedRasterHasTargetSize ==
    (HandedToPainter /\ last.native[1] > 0 /\ last.native[2] > 0) =>
        /\ last.smooth =>
              /\ last.raster.w = last.target[1] \div last.target[2]
              /\ last.raster.h = last.target[3] \div last.target[4]
        /\ ~last.smooth =>
              /\ last.raster.w = last.native[1]
              /\ last.raster.h = last.native[2]

\* the placement of the last draw overflows the viewport on one of its sides:
\* left edge before the left, right edge after the right, top edge above the
\* top, bottom edge below the bottom (the y span is given high-to-low)
Overflows ==
    \/ last.coordsx[1] < Posn[1]
    \/ last.coordsx[2] > Posn[3]
    \/ last.coordsy[2] < Posn[2]
    \/ last.coordsy[1] > Posn[4]

\* C10: with the y span given high-to-low (and the x span low-to-high) the raster
\* is cropped if and only if the placement overflows the viewport on some side;
\* within the viewport the raster drawn is the cached raster.
C10_CroppedIffOverflows ==
    (/\ op.name = "draw"
     /\ last.outcome \in {"drawn", "raise"}
     /\ ~RebuildRaised(last)
     /\ last.coordsy[1] >= last.coordsy[2]
     /\ last.coordsx[1] <= last.coordsx[2]) =>
        /\ last.cropped <=> Overflows
        /\ (~Overflows /\ ~last.smooth) => last.raster = image

====
